---- MODULE Spec2Model ----
(***************************************************************************)
(* Model of the candidate onboarding front end: the ResumeUpload component *)
(* (file validation, staging, upload) and the Dashboard component (status  *)
(* to step mapping, hand-off of a fulfilled upload).                       *)
(*                                                                         *)
(* JavaScript values are encoded as follows.                               *)
(*   strings (file names)  sequences of one-code-unit strings; the code    *)
(*                         unit U+0130 is written "U0130", U+0307 "U0307"  *)
(*   null / undefined file the empty sequence <<>>; a File object f is <<f>>*)
(*   null error            the string Null                                 *)
(*   absent status         the string Absent (null or undefined)           *)
(*   numbers / objects     records [t |-> "number", v |-> n] and           *)
(*                         [t |-> "object", v |-> 0]                       *)
(***************************************************************************)
EXTENDS Integers, Sequences, FiniteSets, TLC

VARIABLES
  user,             \* Dashboard: cached user record (its status), or NoUser
  loading,          \* Dashboard: loading flag
  error,            \* Dashboard: error string ('' when none)
  currentStep,      \* Dashboard: step index shown
  showResumeUpload, \* Dashboard: whether the upload form is rendered
  file,             \* ResumeUpload: staged file (<<>> when null)
  uploading,        \* ResumeUpload: uploading flag
  uploadError,      \* ResumeUpload: error string (Null when none)
  dragActive,       \* ResumeUpload: drag highlight flag
  uploads,          \* resumeAPI.upload requests, by order of issue
  flows,            \* handleResumeUploadSuccess invocations, one per upload
  initFetches,      \* getCurrentUser requests of the mount effect, unresolved
  selectedFile,     \* argument of the validateFile call under study
  validation,       \* its return value
  status,           \* response.data.status of the fetch under study
  failure,          \* err caught by handleUpload in the call under study
  reason,           \* the error text derived from it
  result            \* standalone ResumeUpload page: result (<<>> when null)

vars == <<user, loading, error, currentStep, showResumeUpload, file, uploading,
          uploadError, dragActive, uploads, flows, initFetches,
          selectedFile, validation, status, failure, reason, result>>

dashboardVars == <<user, loading, error, currentStep, showResumeUpload>>
componentVars == <<file, uploading, uploadError, dragActive>>
networkVars == <<uploads, flows, initFetches>>
pureVars == <<selectedFile, validation, status, failure, reason>>

-----------------------------------------------------------------------------
(* Bounds of the model *)

MaxUploads == 2

MaxPieces == 2

MaxDrop == 1

-----------------------------------------------------------------------------
(* JavaScript string primitives used by validateFile *)

Null == "<null>"

\* String.prototype.toLowerCase on one code unit: U+0130 lowers to the two
\* code units U+0069 U+0307, every other code unit to one code unit.
LowerOf(c) ==
  CASE c = "P" -> <<"p">>
    [] c = "D" -> <<"d">>
    [] c = "F" -> <<"f">>
    [] c = "O" -> <<"o">>
    [] c = "C" -> <<"c">>
    [] c = "X" -> <<"x">>
    [] c = "U0130" -> <<"i", "U0307">>
    [] OTHER -> <<c>>

RECURSIVE toLowerCase(_)
toLowerCase(s) ==
  IF s = <<>> THEN <<>> ELSE LowerOf(Head(s)) \o toLowerCase(Tail(s))

\* String.prototype.lastIndexOf: zero-based index of the last c, or -1.
lastIndexOf(s, c) ==
  LET hits == {i \in 1..Len(s) : s[i] = c}
  IN IF hits = {} THEN -1
     ELSE (CHOOSE i \in hits : \A j \in hits : j <= i) - 1

\* String.prototype.substr(start): a negative start counts from the end.
substr(s, start) ==
  LET from == IF start < 0
              THEN (IF Len(s) + start < 0 THEN 0 ELSE Len(s) + start)
              ELSE start
  IN IF from >= Len(s) THEN <<>> ELSE SubSeq(s, from + 1, Len(s))

-----------------------------------------------------------------------------
(* ResumeUpload: validateFile *)

allowedTypes ==
  {<<".", "p", "d", "f">>, <<".", "d", "o", "c">>, <<".", "d", "o", "c", "x">>}

MAX_SIZE == 10 * 1024 * 1024

NO_FILE == "No file selected"
UNSUPPORTED_TYPE == "Please upload a PDF, DOC, or DOCX file"
TOO_LARGE == "File size must be less than 10MB"

fileExtension(f) == substr(toLowerCase(f.name), lastIndexOf(f.name, "."))

\* validateFile with the size test ahead of the type test.
validateFile_SizeFirst(sel) ==
  IF sel = <<>> THEN [valid |-> FALSE, error |-> NO_FILE]
  ELSE IF sel[1].size > MAX_SIZE
         THEN [valid |-> FALSE, error |-> TOO_LARGE]
  ELSE IF fileExtension(sel[1]) \notin allowedTypes
         THEN [valid |-> FALSE, error |-> UNSUPPORTED_TYPE]
  ELSE [valid |-> TRUE, error |-> Null]

\* validation before validateFile has been called
NotValidated == [valid |-> FALSE, error |-> "<not called>"]

validateFile(sel) ==
  IF sel = <<>> THEN [valid |-> FALSE, error |-> NO_FILE]
  ELSE IF fileExtension(sel[1]) \notin allowedTypes
         THEN [valid |-> FALSE, error |-> UNSUPPORTED_TYPE]
  ELSE IF sel[1].size > MAX_SIZE
         THEN [valid |-> FALSE, error |-> TOO_LARGE]
  ELSE [valid |-> TRUE, error |-> Null]

-----------------------------------------------------------------------------
(* Dashboard: the status to step mapping of fetchUserData *)

Absent == "<absent>"

Num(n) == [t |-> "number", v |-> n]
Undefined == [t |-> "undefined", v |-> 0]
\* an object: Object.prototype, or what Object(prev) returns
ObjectPrototype == [t |-> "object", v |-> 0]
ObjectConstructor == [t |-> "function", v |-> 0]

\* Property read statusToStepMap[key] on the object literal: own properties
\* first, then the properties every object literal inherits from
\* Object.prototype; a null or undefined key reads "null" / "undefined".
statusToStepMap(key) ==
  CASE key = "registered" -> Num(0)
    [] key = "uploaded_resume" -> Num(1)
    [] key = "scheduled_intake" -> Num(2)
    [] key = "completed_assessment" -> Num(3)
    [] key = "uploaded_results" -> Num(4)
    [] key = "completed_onboarding" -> Num(5)
    [] key = "__proto__" -> ObjectPrototype
    [] key = "constructor" -> ObjectConstructor
    [] OTHER -> Undefined

\* JavaScript truthiness of a looked-up value.
Truthy(x) == ~(x.t = "undefined" \/ (x.t = "number" /\ x.v = 0))

\* const currentStepIndex = statusToStepMap[response.data.status] || 0
currentStepIndex(st) ==
  LET x == statusToStepMap(st)
  IN IF Truthy(x) THEN x ELSE Num(0)

\* setCurrentStep(value): React calls a function argument as an updater;
\* Object(prev) returns an object for every prev.
setStateValue(value, prev) ==
  IF value.t = "function" THEN ObjectPrototype ELSE value

\* if (!response.data.status || response.data.status === 'registered')
requiresUpload(st) == st = Absent \/ st = "" \/ st = "registered"

-----------------------------------------------------------------------------
(* Dashboard: what render() returns for the current state *)

\* the labels of the onboardingSteps array; its indices start at 0
onboardingSteps ==
  <<"Create profile, upload resume",
    "Schedule intake call",
    "Complete Clifton Strengths assessment",
    "Upload Clifton Strengths results",
    "Schedule follow-up call">>

\* the index argument of onboardingSteps.map((step, index) => ...)
StepIndices == {i - 1 : i \in DOMAIN onboardingSteps}

\* the buttons of StepContent: label and href (Null: a button without href)
ScheduleCall ==
  [label |-> "Schedule Call", href |-> "https://calendly.com/your-link"]
TakeAssessment ==
  [label |-> "Take Assessment",
   href |-> "https://www.gallup.com/cliftonstrengths"]
UploadResults ==
  [label |-> "Upload Results", href |-> Null]
ScheduleFollowUp ==
  [label |-> "Schedule Follow-up", href |-> "https://calendly.com/your-link"]

\* StepContent with the buttons of every step, not of the current step only
StepContent_EveryStep(index, cs) ==
  (IF index = 1 THEN {ScheduleCall} ELSE {})
    \cup (IF index = 2 THEN {TakeAssessment} ELSE {})
    \cup (IF index = 3 THEN {UploadResults} ELSE {})
    \cup (IF index = 4 THEN {ScheduleFollowUp} ELSE {})

\* the children of <StepContent> of the step at index, currentStep being cs:
\* {index === currentStep && index === n && <Button .../>}
StepContent(index, cs) ==
  (IF Num(index) = cs /\ index = 1 THEN {ScheduleCall} ELSE {})
    \cup (IF Num(index) = cs /\ index = 2 THEN {TakeAssessment} ELSE {})
    \cup (IF Num(index) = cs /\ index = 3 THEN {UploadResults} ELSE {})
    \cup (IF Num(index) = cs /\ index = 4 THEN {ScheduleFollowUp} ELSE {})

\* completion read from another status of the table
isOnboardingComplete_UploadedResults == user = "uploaded_results"

\* const isOnboardingComplete = user?.status === 'completed_onboarding'
isOnboardingComplete == user = "completed_onboarding"

\* render() past the early returns of if (loading) and if (error)
DashboardRendered == ~loading /\ error = ""

\* {!isOnboardingComplete && !showResumeUpload && (<Paper> ... <Stepper>)}
ProgressBoxRendered ==
  DashboardRendered /\ ~isOnboardingComplete /\ ~showResumeUpload

\* {isOnboardingComplete && (<Paper> Your Profile is Complete! ...)}
CompletePanelRendered == DashboardRendered /\ isOnboardingComplete

\* the step buttons on the page
RenderedActions ==
  IF ProgressBoxRendered
  THEN UNION {StepContent(index, currentStep) : index \in StepIndices}
  ELSE {}

-----------------------------------------------------------------------------
(* Inputs: the files a user can pick, the responses the server can give *)

Name_a_pdf == <<"a", ".", "p", "d", "f">>
Name_b_DOCX == <<"b", ".", "D", "O", "C", "X">>
Name_c_txt == <<"c", ".", "t", "x", "t">>

CandidateFiles ==
  { [name |-> Name_a_pdf, size |-> 1024],
    [name |-> Name_b_DOCX, size |-> MAX_SIZE],
    [name |-> Name_c_txt, size |-> 1024],
    [name |-> Name_a_pdf, size |-> MAX_SIZE + 1] }

\* e.target.files / e.dataTransfer.files: zero or more files
FileLists == UNION {[1..n -> CandidateFiles] : n \in 0..MaxDrop}

\* files[0]: the first file, undefined for an empty list
First(list) == IF Len(list) = 0 THEN <<>> ELSE <<list[1]>>

\* the values files[0] takes over the file lists
FirstFiles == {First(list) : list \in FileLists}

\* response.data.status values the server is taken to return
ServerStatuses ==
  {Absent, "registered", "uploaded_resume", "completed_onboarding", "bogus"}

\* a rejected upload: err.response?.data?.detail and err.message
UploadFailures ==
  {[detail |-> d, message |-> m] :
     d \in {Null, "", "Invalid resume"}, m \in {Null, "", "Network Error"}}

NoUser == "<no user>"

-----------------------------------------------------------------------------
(* Rendering: which component instance exists *)

\* Dashboard renders <ResumeUpload> only past the loading and error returns
\* and under showResumeUpload.
Mounted(ld, er, sh) == ~ld /\ er = "" /\ sh

\* React state of a ResumeUpload instance is created at mount and dropped at
\* unmount; requests of a dropped instance stay in flight.
Reconcile(ups) ==
  IF Mounted(loading', error', showResumeUpload')
  THEN /\ uploads' = ups
       /\ UNCHANGED componentVars
  ELSE /\ uploads' = [i \in DOMAIN ups |-> [ups[i] EXCEPT !.live = FALSE]]
       /\ file' = <<>>
       /\ uploading' = FALSE
       /\ uploadError' = Null
       /\ dragActive' = FALSE

\* <Button disabled={!file || uploading}> without the uploading test.
UploadDisabled_FileOnly == file = <<>>

\* <Button disabled={!file || uploading}>
UploadDisabled == file = <<>> \/ uploading

-----------------------------------------------------------------------------
(* ResumeUpload: event handlers *)

\* handleFileSelect staging the file ahead of the validation.
handleFileSelect_NoValidation(sel) ==
  /\ file' = sel
  /\ uploadError' = Null
  /\ UNCHANGED uploading

handleFileSelect(sel) ==
  LET v == validateFile(sel)
  IN IF ~v.valid
     THEN /\ uploadError' = v.error
          /\ UNCHANGED <<file, uploading>>
     ELSE /\ file' = sel
          /\ uploadError' = Null
          /\ UNCHANGED uploading

\* onChange of the file input
Browse ==
  /\ Mounted(loading, error, showResumeUpload)
  /\ \E sel \in FirstFiles : handleFileSelect(sel)
  /\ UNCHANGED <<dragActive, dashboardVars, networkVars, pureVars, result>>

\* handleDrop, sel being e.dataTransfer.files[0]:
\* if (e.dataTransfer.files && e.dataTransfer.files[0]) handleFileSelect(...)
handleDrop(sel) ==
  /\ dragActive' = FALSE
  /\ IF sel # <<>>
     THEN handleFileSelect(sel)
     ELSE UNCHANGED <<file, uploading, uploadError>>

\* a drop that uploads the dropped file at once
Drop_AutoUpload ==
  /\ Mounted(loading, error, showResumeUpload)
  /\ Len(uploads) < MaxUploads
  /\ ~uploading
  /\ \E sel \in FirstFiles :
       /\ validateFile(sel).valid
       /\ file' = sel
       /\ uploads' = Append(uploads,
                       [file |-> sel[1], live |-> TRUE, pc |-> "inflight"])
  /\ uploading' = TRUE
  /\ uploadError' = Null
  /\ dragActive' = FALSE
  /\ UNCHANGED <<dashboardVars, flows, initFetches, pureVars, result>>

\* a drop on the drop zone
Drop ==
  /\ Mounted(loading, error, showResumeUpload)
  /\ \E sel \in FirstFiles : handleDrop(sel)
  /\ UNCHANGED <<dashboardVars, networkVars, pureVars, result>>

\* handleDrag
Drag ==
  /\ Mounted(loading, error, showResumeUpload)
  /\ \E type \in {"dragenter", "dragover", "dragleave"} :
       dragActive' = IF type \in {"dragenter", "dragover"} THEN TRUE ELSE FALSE
  /\ UNCHANGED <<file, uploading, uploadError, dashboardVars, networkVars,
                 pureVars, result>>

\* the Delete icon of the staged-file alert: onClick={() => setFile(null)}
ClearSelection ==
  /\ Mounted(loading, error, showResumeUpload)
  /\ file # <<>>
  /\ file' = <<>>
  /\ UNCHANGED <<uploading, uploadError, dragActive, dashboardVars,
                 networkVars, pureVars, result>>

\* handleUpload without its file check
handleUpload_NoFileCheck ==
  /\ uploading' = TRUE
  /\ uploadError' = Null
  /\ uploads' = Append(uploads,
                  [file |-> file, live |-> TRUE, pc |-> "inflight"])
  /\ UNCHANGED file

\* handleUpload up to its await
handleUpload ==
  IF file = <<>>
  THEN /\ uploadError' = "Please select a file first"
       /\ UNCHANGED <<file, uploading, uploads>>
  ELSE /\ uploading' = TRUE
       /\ uploadError' = Null
       /\ uploads' = Append(uploads,
                       [file |-> file[1], live |-> TRUE, pc |-> "inflight"])
       /\ UNCHANGED file

\* onClick of the Upload button
ClickUpload ==
  /\ Mounted(loading, error, showResumeUpload)
  /\ ~UploadDisabled
  /\ Len(uploads) < MaxUploads
  /\ handleUpload
  /\ UNCHANGED <<dragActive, dashboardVars, flows, initFetches, pureVars, result>>

-----------------------------------------------------------------------------
(* Dashboard: fetchUserData and handleResumeUploadSuccess *)

LOAD_FAILED == "Failed to load user data"

\* fetchUserData past its await, the request fulfilled with status st
fetchUserDataOk(st) ==
  /\ user' = st
  /\ currentStep' = setStateValue(currentStepIndex(st), currentStep)
  /\ showResumeUpload' = IF requiresUpload(st) THEN TRUE ELSE showResumeUpload
  /\ loading' = FALSE
  /\ UNCHANGED error

\* fetchUserData past its await, the request rejected
fetchUserDataFail ==
  /\ error' = LOAD_FAILED
  /\ loading' = FALSE
  /\ UNCHANGED <<user, currentStep, showResumeUpload>>

\* a getCurrentUser request of the mount effect resolves
InitFetchOk ==
  /\ initFetches > 0
  /\ initFetches' = initFetches - 1
  /\ \E st \in ServerStatuses : fetchUserDataOk(st)
  /\ Reconcile(uploads)
  /\ UNCHANGED <<flows, pureVars, result>>

InitFetchFail ==
  /\ initFetches > 0
  /\ initFetches' = initFetches - 1
  /\ fetchUserDataFail
  /\ Reconcile(uploads)
  /\ UNCHANGED <<flows, pureVars, result>>

NoFlow ==
  [pc |-> "none", cached |-> NoUser, updateResolved |-> FALSE,
   fetchIssued |-> FALSE, target |-> Null]

\* handleResumeUploadSuccess calling fetchUserData() from its catch.
handleResumeUploadSuccess_Refetch(i) ==
  flows' = [flows EXCEPT ![i] =
              [pc |-> "fetching", cached |-> NoUser, updateResolved |-> TRUE,
               fetchIssued |-> TRUE, target |-> Null]]

\* handleResumeUploadSuccess, run as onSuccess of upload i. authAPI, as the
\* api module exports it (login, register, logout, getCurrentUser), has no
\* updateStatus: the call authAPI.updateStatus('uploaded_resume') throws a
\* TypeError inside the try before any request is made, so
\* setShowResumeUpload(false) and fetchUserData() are skipped and the catch
\* logs 'Failed to update status:'. The handler is over within the step that
\* calls it: no request issued (target), no refetch (fetchIssued), no state
\* setter called.
handleResumeUploadSuccess(i) ==
  flows' = [flows EXCEPT ![i] =
              [pc |-> "updateFailed", cached |-> NoUser, updateResolved |-> TRUE,
               fetchIssued |-> FALSE, target |-> Null]]

\* errorReason with the transport message ahead of the response detail.
errorReason_MessageFirst(err) ==
  IF err.message \notin {Null, ""} THEN err.message
  ELSE IF err.detail \notin {Null, ""} THEN err.detail
  ELSE "Something went wrong"

\* reason before the catch has run
NoReason == "<not called>"

\* no rejection under study
NoFailure == [detail |-> Null, message |-> Null]

\* err.response?.data?.detail || err.message || 'Something went wrong'
errorReason(err) ==
  IF err.detail \notin {Null, ""} THEN err.detail
  ELSE IF err.message \notin {Null, ""} THEN err.message
  ELSE "Something went wrong"

\* handleUpload past its await, the upload fulfilled: setFile(null),
\* onSuccess(response.data), which is handleResumeUploadSuccess and returns
\* within the step, finally setUploading(false). State setters of an
\* unmounted instance change nothing.
UploadResolveOk ==
  \E i \in DOMAIN uploads :
    /\ uploads[i].pc = "inflight"
    /\ uploads' = [uploads EXCEPT ![i].pc = "ok"]
    /\ IF uploads[i].live
       THEN /\ file' = <<>>
            /\ uploading' = FALSE
            /\ UNCHANGED <<uploadError, dragActive>>
       ELSE UNCHANGED componentVars
    /\ handleResumeUploadSuccess(i)
    /\ UNCHANGED <<dashboardVars, initFetches, pureVars, result>>

\* handleUpload without its finally: a rejected upload leaves uploading set
UploadResolveFail_NoFinally ==
  \E i \in DOMAIN uploads, err \in UploadFailures :
    /\ uploads[i].pc = "inflight"
    /\ uploads' = [uploads EXCEPT ![i].pc = "failed"]
    /\ IF uploads[i].live
       THEN /\ uploadError' = errorReason(err)
            /\ UNCHANGED <<file, uploading, dragActive>>
       ELSE UNCHANGED componentVars
    /\ UNCHANGED <<dashboardVars, flows, initFetches, pureVars, result>>

\* handleUpload past its await, the upload rejected: setError(...), finally
\* setUploading(false)
UploadResolveFail ==
  \E i \in DOMAIN uploads, err \in UploadFailures :
    /\ uploads[i].pc = "inflight"
    /\ uploads' = [uploads EXCEPT ![i].pc = "failed"]
    /\ IF uploads[i].live
       THEN /\ uploadError' = errorReason(err)
            /\ uploading' = FALSE
            /\ UNCHANGED <<file, dragActive>>
       ELSE UNCHANGED componentVars
    /\ UNCHANGED <<dashboardVars, flows, initFetches, pureVars, result>>

-----------------------------------------------------------------------------
(* The application: Dashboard mounted, its mount effect run *)

\* useState initial values; the mount effect has called fetchUserData, once,
\* or twice under StrictMode's development double invocation of effects.
Init ==
  /\ user = NoUser
  /\ loading = TRUE
  /\ error = ""
  /\ currentStep = Num(0)
  /\ showResumeUpload = FALSE
  /\ file = <<>>
  /\ uploading = FALSE
  /\ uploadError = Null
  /\ dragActive = FALSE
  /\ uploads = <<>>
  /\ flows = [i \in 1..MaxUploads |-> NoFlow]
  /\ initFetches \in {1, 2}
  /\ selectedFile = <<>>
  /\ validation = NotValidated
  /\ status = Absent
  /\ failure = NoFailure
  /\ reason = NoReason
  /\ result = <<>>

Next ==
  \/ Browse
  \/ Drop
  \/ Drag
  \/ ClearSelection
  \/ ClickUpload
  \/ UploadResolveOk
  \/ UploadResolveFail
  \/ InitFetchOk
  \/ InitFetchFail

Spec == Init /\ [][Next]_vars

\* The transport settles every request: the promise of resumeAPI.upload is
\* fulfilled or rejected, and the continuation of handleUpload then runs.
SpecLive == Spec /\ WF_vars(UploadResolveOk \/ UploadResolveFail)

-----------------------------------------------------------------------------
(* The standalone ResumeUpload page: the component that keeps the result   *)
(* of the upload and shows it, with an "Upload Another Resume" button.     *)
(* validateFile, handleDrag and handleUpload up to its await are the same  *)
(* code as in the Dashboard's component.                                   *)

\* response.data of a fulfilled upload
ResponseData == {[candidate |-> "Ada"], [candidate |-> "Grace"]}

\* if (result) return (<Paper> Resume Uploaded Successfully! ...)
ResultPage == result # <<>>

\* handleFileSelect of the page, clearing the result only
handleFileSelect_Standalone_KeepsError(sel) ==
  LET v == validateFile(sel)
  IN IF ~v.valid
     THEN /\ uploadError' = v.error
          /\ UNCHANGED <<file, uploading, result>>
     ELSE /\ file' = sel
          /\ result' = <<>>
          /\ UNCHANGED <<uploading, uploadError>>

\* handleFileSelect of the page: setFile, setError(null), setResult(null)
handleFileSelect_Standalone(sel) ==
  LET v == validateFile(sel)
  IN IF ~v.valid
     THEN /\ uploadError' = v.error
          /\ UNCHANGED <<file, uploading, result>>
     ELSE /\ file' = sel
          /\ uploadError' = Null
          /\ result' = <<>>
          /\ UNCHANGED uploading

\* handleDrop of the page
handleDrop_Standalone(sel) ==
  /\ dragActive' = FALSE
  /\ IF sel # <<>>
     THEN handleFileSelect_Standalone(sel)
     ELSE UNCHANGED <<file, uploading, uploadError, result>>

\* reset leaving the error in place
reset_KeepsError ==
  /\ file' = <<>>
  /\ result' = <<>>
  /\ UNCHANGED uploadError

\* reset: setFile(null), setResult(null), setError(null)
reset ==
  /\ file' = <<>>
  /\ result' = <<>>
  /\ uploadError' = Null

\* onChange of the file input of the page
Browse_Standalone ==
  /\ ~ResultPage
  /\ \E sel \in FirstFiles : handleFileSelect_Standalone(sel)
  /\ UNCHANGED <<dragActive, dashboardVars, networkVars, pureVars>>

\* a drop on the drop zone of the page
Drop_Standalone ==
  /\ ~ResultPage
  /\ \E sel \in FirstFiles : handleDrop_Standalone(sel)
  /\ UNCHANGED <<dashboardVars, networkVars, pureVars>>

\* handleDrag of the page
Drag_Standalone ==
  /\ ~ResultPage
  /\ \E type \in {"dragenter", "dragover", "dragleave"} :
       dragActive' = IF type \in {"dragenter", "dragover"} THEN TRUE ELSE FALSE
  /\ UNCHANGED <<file, uploading, uploadError, result, dashboardVars,
                 networkVars, pureVars>>

\* the Delete icon of the page: onClick={() => setFile(null)}
ClearSelection_Standalone ==
  /\ ~ResultPage
  /\ file # <<>>
  /\ file' = <<>>
  /\ UNCHANGED <<uploading, uploadError, dragActive, result, dashboardVars,
                 networkVars, pureVars>>

\* onClick of the Upload button of the page
ClickUpload_Standalone ==
  /\ ~ResultPage
  /\ ~UploadDisabled
  /\ Len(uploads) < MaxUploads
  /\ handleUpload
  /\ UNCHANGED <<dragActive, result, dashboardVars, flows, initFetches,
                 pureVars>>

\* handleUpload of the page past its await, the upload fulfilled:
\* setResult(response.data), setFile(null), finally setUploading(false)
UploadResolveOk_Standalone ==
  \E i \in DOMAIN uploads, data \in ResponseData :
    /\ uploads[i].pc = "inflight"
    /\ uploads' = [uploads EXCEPT ![i].pc = "ok"]
    /\ result' = <<data>>
    /\ file' = <<>>
    /\ uploading' = FALSE
    /\ UNCHANGED <<uploadError, dragActive, dashboardVars, flows,
                   initFetches, pureVars>>

\* handleUpload of the page past its await, the upload rejected
UploadResolveFail_Standalone ==
  \E i \in DOMAIN uploads, err \in UploadFailures :
    /\ uploads[i].pc = "inflight"
    /\ uploads' = [uploads EXCEPT ![i].pc = "failed"]
    /\ uploadError' = errorReason(err)
    /\ uploading' = FALSE
    /\ UNCHANGED <<file, dragActive, result, dashboardVars, flows,
                   initFetches, pureVars>>

\* onClick={reset} of the "Upload Another Resume" button
UploadAnother ==
  /\ ResultPage
  /\ reset
  /\ UNCHANGED <<uploading, dragActive, dashboardVars, networkVars, pureVars>>

\* the page mounted: useState initial values; no Dashboard, no fetch
InitStandalone ==
  /\ user = NoUser
  /\ loading = FALSE
  /\ error = ""
  /\ currentStep = Num(0)
  /\ showResumeUpload = FALSE
  /\ file = <<>>
  /\ uploading = FALSE
  /\ uploadError = Null
  /\ dragActive = FALSE
  /\ uploads = <<>>
  /\ flows = [i \in 1..MaxUploads |-> NoFlow]
  /\ initFetches = 0
  /\ selectedFile = <<>>
  /\ validation = NotValidated
  /\ status = Absent
  /\ failure = NoFailure
  /\ reason = NoReason
  /\ result = <<>>

NextStandalone ==
  \/ Browse_Standalone
  \/ Drop_Standalone
  \/ Drag_Standalone
  \/ ClearSelection_Standalone
  \/ ClickUpload_Standalone
  \/ UploadResolveOk_Standalone
  \/ UploadResolveFail_Standalone
  \/ UploadAnother

SpecStandalone == InitStandalone /\ [][NextStandalone]_vars

-----------------------------------------------------------------------------
(* validateFile and the status mapping on their own: the inputs are drawn *)
(* at the start, one step applies validateFile, one applies fetchUserData  *)

Pieces ==
  { <<"a">>, <<"r", "e", "s", "u", "m", "e">>, <<"U0130">>, <<".">>,
    <<".", "p", "d", "f">>, <<".", "P", "D", "F">>, <<".", "d", "o", "c">>,
    <<".", "D", "o", "c", "X">>, <<".", "t", "x", "t">>, <<"p", "d", "f">>,
    <<".", "p", "d", "f", "x">> }

RECURSIVE NamesOf(_)
NamesOf(n) ==
  IF n = 0 THEN {<<>>}
  ELSE NamesOf(n - 1) \cup {s \o p : s \in NamesOf(n - 1), p \in Pieces}

Sizes == {0, 1024, MAX_SIZE - 1, MAX_SIZE, MAX_SIZE + 1, 2 * MAX_SIZE}

PureFiles ==
  {<<>>} \cup {<<[name |-> n, size |-> z]>> : n \in NamesOf(MaxPieces), z \in Sizes}

PureStatuses ==
  {Absent, "", "registered", "uploaded_resume", "scheduled_intake",
   "completed_assessment", "uploaded_results", "completed_onboarding",
   "bogus", "__proto__", "constructor"}

\* rejections of the upload: detail and message absent, empty or a text
PureFailures ==
  {[detail |-> d, message |-> m] :
     d \in {Null, "", "Invalid resume", "Network Error"},
     m \in {Null, "", "Network Error", "Request failed with status code 500"}}

InitPure ==
  /\ user = NoUser
  /\ loading = TRUE
  /\ error = ""
  /\ currentStep = Num(0)
  /\ showResumeUpload = FALSE
  /\ file = <<>>
  /\ uploading = FALSE
  /\ uploadError = Null
  /\ dragActive = FALSE
  /\ uploads = <<>>
  /\ flows = [i \in 1..MaxUploads |-> NoFlow]
  /\ initFetches = 1
  /\ validation = NotValidated
  /\ reason = NoReason
  /\ result = <<>>
  /\ \/ /\ selectedFile \in PureFiles
        /\ status \in PureStatuses
        /\ failure = NoFailure
     \/ /\ selectedFile = <<>>
        /\ status = Absent
        /\ failure \in PureFailures

\* validateFile(selectedFile)
CallValidate ==
  /\ validation = NotValidated
  /\ validation' = validateFile(selectedFile)
  /\ UNCHANGED <<dashboardVars, componentVars, networkVars, selectedFile,
                 status, failure, reason, result>>

\* the getCurrentUser request of the mount effect is fulfilled with status
FetchStatus ==
  /\ initFetches > 0
  /\ initFetches' = initFetches - 1
  /\ fetchUserDataOk(status)
  /\ Reconcile(uploads)
  /\ UNCHANGED <<flows, pureVars, result>>

\* the catch of handleUpload: setError(errorReason(err))
CallErrorReason ==
  /\ reason = NoReason
  /\ reason' = errorReason(failure)
  /\ UNCHANGED <<dashboardVars, componentVars, networkVars, selectedFile,
                 validation, status, failure, result>>

\* handleUpload() called with no file staged. The Upload button is disabled
\* then, so no click reaches this branch: the handler is called directly. It
\* is a closure of a rendered ResumeUpload, so the form is on the page.
CallUpload ==
  /\ Mounted(loading, error, showResumeUpload)
  /\ file = <<>>
  /\ uploadError = Null
  /\ handleUpload
  /\ UNCHANGED <<dragActive, dashboardVars, flows, initFetches, pureVars,
                 result>>

NextPure ==
  \/ CallValidate
  \/ FetchStatus
  \/ CallErrorReason
  \/ CallUpload

SpecPure == InitPure /\ [][NextPure]_vars

-----------------------------------------------------------------------------
(* The specification's own notions, used to state the properties *)

\* rank of a status in the ordered enumeration; 0 for any other value
Rank(st) ==
  CASE st = "registered" -> 0
    [] st = "uploaded_resume" -> 1
    [] st = "scheduled_intake" -> 2
    [] st = "completed_assessment" -> 3
    [] st = "uploaded_results" -> 4
    [] st = "completed_onboarding" -> 5
    [] OTHER -> 0

HasDot(name) == \E i \in 1..Len(name) : name[i] = "."

\* the part of the name from its last '.', lower-cased; empty without a '.'
Extension(name) ==
  IF ~HasDot(name) THEN <<>>
  ELSE toLowerCase(SubSeq(name, lastIndexOf(name, ".") + 1, Len(name)))

AllowedExtension(name) ==
  Extension(name) \in
    {<<".", "p", "d", "f">>, <<".", "d", "o", "c">>, <<".", "d", "o", "c", "x">>}

\* a file that passes the validation policy
PassesPolicy(f) == AllowedExtension(f.name) /\ f.size <= 10485760

\* upload requests of the mounted instance that are unresolved
LiveInFlight == {i \in DOMAIN uploads : uploads[i].live /\ uploads[i].pc = "inflight"}

Name_resume_PDF == <<"r", "e", "s", "u", "m", "e", ".", "P", "D", "F">>

Validated == validation # NotValidated

Fetched == initFetches = 0

-----------------------------------------------------------------------------
(* Properties *)

\* C1: single-flight upload. The mounted ResumeUpload instance has at most
\* one unresolved upload request, and while one is unresolved a further click
\* on the Upload button invokes nothing.
C1_SingleFlight ==
  /\ Cardinality(LiveInFlight) <= 1
  /\ (LiveInFlight # {} => uploading /\ ~ENABLED ClickUpload)

\* C1 witness: an upload is unresolved, a file is staged and the upload
\* budget is not used up, so only the disabled button stops a second submit.
C1_Witness ==
  /\ LiveInFlight # {}
  /\ file # <<>>
  /\ Len(uploads) < MaxUploads

\* C2: validation before network. Every file handed to the upload transport,
\* and every staged file, passes the validation policy.
C2_ValidatedBeforeNetwork ==
  /\ \A i \in DOMAIN uploads : PassesPolicy(uploads[i].file)
  /\ (file # <<>> => PassesPolicy(file[1]))

\* C2 witness: a candidate was rejected while an upload of an accepted file
\* is on the network.
C2_Witness ==
  /\ LiveInFlight # {}
  /\ uploadError \in {UNSUPPORTED_TYPE, TOO_LARGE, NO_FILE}

\* C3: when a submit of the mounted instance fails, the submitted file is
\* still the staged file.
C3_FailedSubmitKeepsFile ==
  [][\A i \in DOMAIN uploads :
       (uploads[i].pc = "inflight" /\ uploads[i].live
          /\ uploads'[i].pc = "failed")
       => file' = <<uploads[i].file>>]_vars

\* what the two components can display as an error
UploadErrorTexts ==
  {NO_FILE, UNSUPPORTED_TYPE, TOO_LARGE, "Please select a file first",
   "Something went wrong"}
    \cup {e.detail : e \in UploadFailures} \cup {e.message : e \in UploadFailures}

\* the presentation state shows an error that is neither absent, nor the
\* load failure, nor an upload or validation failure
SynchronizationErrorShown ==
  \/ error \notin {"", LOAD_FAILED}
  \/ uploadError \notin ({Null} \cup UploadErrorTexts)

\* C5: when the upload is fulfilled and the status update fails, the
\* presentation state reports a synchronization error, and no file is staged
\* in the form that sent the upload.
C5_SyncErrorReported ==
  [][\A i \in DOMAIN uploads :
       (uploads[i].pc = "inflight" /\ uploads'[i].pc = "ok"
          /\ flows'[i].pc = "updateFailed")
       => (SynchronizationErrorShown' /\ (uploads[i].live => file' = <<>>))]_vars

\* C7: validateFile answers UNSUPPORTED_TYPE for every supplied file whose
\* extension is not .pdf, .doc or .docx, whatever its size, also for a name
\* without '.'; resume.PDF of allowed size is accepted.
C7_UnsupportedTypeRejected ==
  (Validated /\ selectedFile # <<>>) =>
    /\ (~AllowedExtension(selectedFile[1].name)
          => validation = [valid |-> FALSE, error |-> UNSUPPORTED_TYPE])
    /\ (~HasDot(selectedFile[1].name)
          => validation = [valid |-> FALSE, error |-> UNSUPPORTED_TYPE])
    /\ ((selectedFile[1].name = Name_resume_PDF
           /\ selectedFile[1].size <= 10485760) => validation.valid)

\* C7 witness: a file over the size limit and without an allowed extension
\* has been validated.
C7_Witness ==
  /\ Validated
  /\ selectedFile # <<>>
  /\ selectedFile[1].size > 10485760
  /\ ~AllowedExtension(selectedFile[1].name)

\* C8: for a file with an allowed extension validateFile succeeds for every
\* size up to 10,485,760 and answers TOO_LARGE for every larger size.
C8_SizeBoundary ==
  (Validated /\ selectedFile # <<>> /\ AllowedExtension(selectedFile[1].name)) =>
    /\ (selectedFile[1].size <= 10485760 => validation.valid)
    /\ (selectedFile[1].size >= 10485761
          => validation = [valid |-> FALSE, error |-> TOO_LARGE])

\* C9: the step index derived from a fetched status is its rank in the table,
\* and 0 for every value outside the enumeration.
C9_StepIndexIsRankOrZero ==
  Fetched => currentStep = Num(Rank(status))

\* C10: the upload call-to-action is required exactly when the resolved step
\* index is 0.
C10_UploadStepIffStepZero ==
  Fetched => (showResumeUpload <=> currentStep = Num(0))

\* the validation errors handleFileSelect can store
ValidationErrors == {NO_FILE, UNSUPPORTED_TYPE, TOO_LARGE}

\* C11: a selection that fails validation stores the validation error and
\* leaves the component idle with no file staged, also when a valid file was
\* staged before.
C11_InvalidSelectionLeavesIdle ==
  [][((Browse \/ Drop) /\ uploadError' \in ValidationErrors)
       => (file' = <<>> /\ ~uploading')]_vars

\* C12: while an upload of the mounted instance is unresolved, a browse or
\* drop event changes neither the staged file nor the stored error.
C12_SelectIgnoredWhileUploading ==
  [][(uploading /\ (Browse \/ Drop)) => UNCHANGED <<file, uploadError>>]_vars

\* C13: when an upload of the mounted instance is fulfilled, the staged file
\* is cleared, the result is handed to onSuccess once, and no error is held.
C13_SuccessClearsFileAndError ==
  [][\A i \in DOMAIN uploads :
       (uploads[i].pc = "inflight" /\ uploads[i].live /\ uploads'[i].pc = "ok")
       => /\ file' = <<>>
          /\ ~uploading'
          /\ uploadError' = Null
          /\ flows[i].pc = "none"
          /\ flows'[i].pc # "none"]_vars

\* a field of the rejection that is present: neither absent nor empty
Present(x) == x # Null /\ x # ""

\* C14: the error text of a rejected upload is the response detail if
\* present, otherwise the transport message if present, otherwise the fixed
\* fallback; it is never empty.
C14_ErrorReasonPriority ==
  reason # NoReason =>
    /\ (Present(failure.detail) => reason = failure.detail)
    /\ (~Present(failure.detail) /\ Present(failure.message)
          => reason = failure.message)
    /\ (~Present(failure.detail) /\ ~Present(failure.message)
          => reason = "Something went wrong")
    /\ Present(reason)

\* C14 witness: a rejection carrying both a detail and a different message
\* has been turned into an error text.
C14_Witness ==
  /\ reason # NoReason
  /\ Present(failure.detail)
  /\ Present(failure.message)
  /\ failure.detail # failure.message

\* C16: no implicit retries. Upload requests are issued only by a click on
\* the Upload button, one per click; every fulfilled upload issues one
\* updateStatus request, and none is issued otherwise; a resolved upload is
\* never requested again and an ended hand-off issues nothing further.
C16_NoImplicitRetries ==
  [][/\ (Len(uploads') # Len(uploads) => ClickUpload)
     /\ (ClickUpload => Len(uploads') = Len(uploads) + 1)
     /\ \A i \in DOMAIN uploads :
          /\ (uploads[i].pc # "inflight" => uploads'[i].pc = uploads[i].pc)
          /\ ((uploads[i].pc = "inflight" /\ uploads'[i].pc = "ok")
                => (flows[i].target = Null
                      /\ flows'[i].target = "uploaded_resume"))
     /\ \A i \in DOMAIN flows :
          flows[i].pc # "none" => flows'[i] = flows[i]]_vars

\* C17: teardown guard. When the upload of an unmounted instance resolves, no
\* component state changes and nothing is handed to onSuccess.
C17_TeardownGuard ==
  [][\A i \in DOMAIN uploads :
       (uploads[i].pc = "inflight" /\ ~uploads[i].live
          /\ uploads'[i].pc # "inflight")
       => (flows' = flows /\ UNCHANGED componentVars)]_vars

\* C18: scenario A. With the cached status 'registered', step index 0 and
\* the upload form required, the fulfilled upload is followed by the request
\* of the transition to uploaded_resume, on which the scenario goes on to
\* step index 1, the form not required and the schedule-intake link.
C18_ScenarioA ==
  [][\A i \in DOMAIN uploads :
       (/\ uploads[i].pc = "inflight" /\ uploads[i].live
        /\ uploads'[i].pc = "ok"
        /\ user = "registered" /\ currentStep = Num(0)
        /\ showResumeUpload /\ error = "")
       => /\ flows'[i].pc = "updating"
          /\ flows'[i].target = "uploaded_resume"
          /\ ~flows'[i].updateResolved]_vars

\* C19: completion is reported exactly for the status completed_onboarding,
\* and then no step button is on the page.
C19_CompleteIffCompletedOnboarding ==
  Fetched
    => /\ (isOnboardingComplete <=> status = "completed_onboarding")
       /\ (status = "completed_onboarding"
             => /\ RenderedActions = {}
                /\ ~ProgressBoxRendered
                /\ CompletePanelRendered)

\* C19 witness: a fetch answered completed_onboarding.
C19_Witness ==
  Fetched /\ status = "completed_onboarding" /\ isOnboardingComplete

\* the call-to-action the lookup table gives for a step index
ActionOfStep(cs) ==
  CASE cs = Num(1) -> {[label |-> "Schedule Call",
                        href |-> "https://calendly.com/your-link"]}
    [] cs = Num(2) -> {[label |-> "Take Assessment",
                        href |-> "https://www.gallup.com/cliftonstrengths"]}
    [] cs = Num(3) -> {[label |-> "Upload Results", href |-> Null]}
    [] cs = Num(4) -> {[label |-> "Schedule Follow-up",
                        href |-> "https://calendly.com/your-link"]}
    [] OTHER -> {}

\* C20: the step button is a fixed lookup on the step index: a link for 1, 2
\* and 4, a button without link for 3, nothing for 0 and 5; only the step
\* equal to the current step has one, and the page has at most one.
C20_ActionIsLookupOnStep ==
  Fetched
    => /\ \A index \in StepIndices :
            StepContent(index, currentStep)
              = IF Num(index) = currentStep
                THEN ActionOfStep(currentStep) ELSE {}
       /\ (ProgressBoxRendered => RenderedActions = ActionOfStep(currentStep))
       /\ (currentStep \in {Num(1), Num(2), Num(3), Num(4)}
             => ProgressBoxRendered)
       /\ Cardinality(RenderedActions) <= 1

\* C20 witness: a fetch left step 3 current with its button on the page.
C20_Witness ==
  Fetched /\ currentStep = Num(3) /\ RenderedActions = {UploadResults}

\* C21: a drop and a file-picker change carrying the same file list, taken
\* from the same state, leave the same staged file and the same stored error.
C21_ModalityEquivalence ==
  Mounted(loading, error, showResumeUpload)
    => \A files \in FileLists :
         \A f \in {file, First(files)} :
           \A e \in {uploadError, Null} \cup ValidationErrors :
             ENABLED (handleDrop(First(files))
                        /\ file' = f /\ uploadError' = e)
               <=> ENABLED (handleFileSelect(First(files))
                              /\ file' = f /\ uploadError' = e)

\* C22: a selection that passes validation, made while no upload is
\* running, leaves that candidate as the one staged file, with no stored
\* error and no stored result, and the component not uploading.
C22_ValidSelectionStages ==
  [][\A sel \in FirstFiles \ {<<>>} :
       (/\ PassesPolicy(sel[1])
        /\ ~uploading
        /\ Browse_Standalone \/ Drop_Standalone
        /\ handleFileSelect_Standalone(sel))
       => /\ file' = sel /\ Len(file') = 1
          /\ uploadError' = Null
          /\ result' = <<>>
          /\ ~uploading']_vars

\* C22 witness: after a rejected upload left its error, a valid selection
\* has staged a file and cleared the error.
C22_Witness ==
  /\ Len(uploads) = 1 /\ uploads[1].pc = "failed"
  /\ file # <<>> /\ uploadError = Null /\ ~uploading /\ result = <<>>

\* C23: the "upload another" reset leaves no staged file, no result and no
\* error, with no upload running and no request issued; called in a state
\* holding an error, reset can end in no other way.
C23_ResetReturnsToIdle ==
  [][/\ UploadAnother
          => /\ file' = <<>> /\ result' = <<>> /\ uploadError' = Null
             /\ ~uploading'
             /\ UNCHANGED networkVars
     /\ (uploadError # Null /\ ~uploading)
          => ~ENABLED (reset /\ ~(file' = <<>> /\ result' = <<>>
                                    /\ uploadError' = Null))]_vars

\* C23 witness: the result of a fulfilled upload has been discarded.
C23_Witness ==
  /\ Len(uploads) = 1 /\ uploads[1].pc = "ok"
  /\ result = <<>> /\ file = <<>> /\ uploadError = Null /\ ~uploading

\* C24: side effects are confined to the submit. No step that changes a
\* request is a selection, drag, drop or clear-selection, and an upload request
\* appears only on the step that enters the uploading state with the staged
\* file, one request carrying that file.
C24_SideEffectsConfined ==
  [][/\ networkVars' # networkVars
          => ~(Browse \/ Drop \/ Drag \/ ClearSelection)
     /\ Len(uploads') # Len(uploads)
          => /\ ClickUpload
             /\ ~uploading /\ uploading'
             /\ file # <<>> /\ file' = file
             /\ uploads' = Append(uploads, uploads'[Len(uploads')])
             /\ uploads'[Len(uploads')].file = file[1]
             /\ uploads'[Len(uploads')].pc = "inflight"]_vars

\* C24 witness: a file was staged, a later selection was refused and the
\* drop zone is highlighted, and no request has been issued.
C24_Witness ==
  /\ file # <<>> /\ uploadError \in ValidationErrors /\ dragActive
  /\ uploads = <<>>
  /\ \A i \in DOMAIN flows : flows[i].pc = "none"

\* C25: while an upload of the mounted component is in flight, exactly one
\* file is staged and it is the file that was transmitted.
C25_InFlightFileStaged ==
  \A i \in LiveInFlight : file = <<uploads[i].file>>

\* C26: in every state the step index shown equals the step index resolved
\* from the status of the cached user record, and 0 while no record is cached.
C26_StepMatchesCachedStatus ==
  currentStep = Num(IF user = NoUser THEN 0 ELSE Rank(user))

\* C27: a status-transition request is issued only on the step that fulfils
\* an upload and every fulfilled upload issues one; its target is always
\* uploaded_resume; no step that hands an upload to the Dashboard is a
\* rejected upload, a selection (refused or not) or a clear-selection.
C27_TransitionOnlyAfterUploadSuccess ==
  [][/\ \A i \in DOMAIN flows :
          flows'[i].target # flows[i].target
            => /\ i \in DOMAIN uploads
               /\ uploads[i].pc = "inflight" /\ uploads'[i].pc = "ok"
               /\ flows'[i].target = "uploaded_resume"
     /\ \A i \in DOMAIN uploads :
          (uploads[i].pc = "inflight" /\ uploads'[i].pc = "ok")
            => flows'[i].target = "uploaded_resume"
     /\ flows' # flows
          => ~(UploadResolveFail \/ Browse \/ Drop \/ ClearSelection)]_vars

\* C28: a submit with no file staged issues no upload request and does not
\* start uploading; it stores the 'select a file first' error and leaves the
\* staged file and the result as they were.
C28_SubmitWithoutFile ==
  [][CallUpload
       => /\ uploadError' = "Please select a file first"
          /\ ~uploading'
          /\ UNCHANGED <<file, uploading, result, uploads, flows>>]_vars

\* C28 witness: the submit without a file has run.
C28_Witness ==
  /\ uploadError = "Please select a file first"
  /\ file = <<>> /\ ~uploading /\ uploads = <<>>

\* C29: every upload attempt leaves the uploading state. The step on which
\* the transport settles the request of the mounted component clears the
\* uploading flag, so, the transport settling every request, uploading always
\* leads to not uploading; after a rejection the Upload button is enabled
\* again whenever a file is staged.
C29_UploadingEnds ==
  /\ uploading ~> ~uploading
  /\ [][\A i \in DOMAIN uploads :
          (uploads[i].pc = "inflight" /\ uploads[i].live
             /\ uploads'[i].pc # "inflight")
          => /\ ~uploading'
             /\ (file' # <<>> => ~UploadDisabled')]_vars

\* C29 witness: an upload was rejected, the component is no longer uploading
\* and the Upload button is enabled for a new submit.
C29_Witness ==
  /\ Len(uploads) = 1 /\ uploads[1].pc = "failed" /\ uploads[1].live
  /\ ~uploading /\ ~UploadDisabled

\* C30: the step on which the status update fails after a fulfilled upload
\* issues no refetch and leaves the cached user, the step index, the error,
\* the loading flag and the upload-form flag as they were; the form that sent
\* the upload stays on the page with no file staged; the hand-off issues no
\* request afterwards.
C30_UpdateFailureLeavesDashboard ==
  [][/\ \A i \in DOMAIN uploads :
          (uploads[i].pc = "inflight" /\ uploads'[i].pc = "ok")
            => /\ flows'[i].pc = "updateFailed"
               /\ ~flows'[i].fetchIssued
               /\ initFetches' = initFetches
               /\ UNCHANGED dashboardVars
               /\ uploads[i].live
                    => /\ Mounted(loading', error', showResumeUpload')
                       /\ file' = <<>>
               /\ \A j \in DOMAIN flows \ {i} : flows'[j] = flows[j]
     /\ \A i \in DOMAIN flows :
          flows[i].pc = "updateFailed" => flows'[i] = flows[i]]_vars

\* C30 witness: the status update failed after the upload of a registered
\* user; the form is still shown, with no file staged, and nothing else moved.
C30_Witness ==
  /\ Len(uploads) = 1 /\ uploads[1].pc = "ok" /\ uploads[1].live
  /\ flows[1].pc = "updateFailed" /\ ~flows[1].fetchIssued
  /\ user = "registered" /\ currentStep = Num(0) /\ error = ""
  /\ showResumeUpload
  /\ Mounted(loading, error, showResumeUpload) /\ file = <<>>

\* C31: the upload form is on the page only while the status of the cached
\* user record is absent or 'registered'; the form and the onboarding-complete
\* panel are never on the page together.
C31_FormOnlyWhileRegistered ==
  /\ Mounted(loading, error, showResumeUpload)
       => user \in {Absent, "registered"}
  /\ ~(Mounted(loading, error, showResumeUpload) /\ CompletePanelRendered)

====
